---- MODULE Spec2Model ----
(***************************************************************************)
(* Model of the 2D camera (src/src/camera.rs) and of the decomposed 2D     *)
(* transform (src/src/transform.rs).                                        *)
(*                                                                         *)
(* Numbers.  The code computes in f64 and narrows to f32 when it builds a  *)
(* matrix.  A number is modelled as a normalised fraction <<n, d>>, d > 0. *)
(* Every input of the model is a dyadic fraction (an integer times a power *)
(* of two) of small magnitude, and every scale and zoom factor is a signed *)
(* power of two, so every f64 result of the code is exact and is the       *)
(* fraction computed here.  The narrowing to f32 is modelled by AsF32,     *)
(* which rounds a dyadic fraction to a 24 bit significand.                 *)
(*                                                                         *)
(* Angles.  rotation is counted in quarter turns (1 stands for pi/2), with *)
(* sin_cos taken exactly; the code's sin_cos of k*pi/2 differs from it by  *)
(* the rounding of pi only.                                                *)
(***************************************************************************)
EXTENDS Integers, Sequences, FiniteSets, TLC

VARIABLES cam, hist, query, ret

vars == <<cam, hist, query, ret>>

(***************************************************************************)
(* Bound of the model: the number of mutating calls made on one Camera.    *)
(***************************************************************************)
MaxSteps == 2

(***************************************************************************)
(* f64 arithmetic on fractions.  Dividing by zero is outside the domain of *)
(* Norm: the model stops there instead of carrying an infinity or a NaN.   *)
(***************************************************************************)
Rat == Int \X (Nat \ {0})

Abs[n \in Int] == IF n < 0 THEN -n ELSE n

GCD[a \in Nat, b \in Nat] == IF b = 0 THEN a ELSE GCD[b, a % b]

Norm[n \in Int, d \in Int \ {0}] ==
    LET s == IF d < 0 THEN -1 ELSE 1
        g == GCD[Abs[n], Abs[d]]
    IN  <<(s * n) \div g, (s * d) \div g>>

F(n) == <<n, 1>>

Zero == F(0)

One == F(1)

Half == <<1, 2>>

Neg[a \in Rat] == <<-a[1], a[2]>>

Add[a \in Rat, b \in Rat] ==
    LET g == GCD[a[2], b[2]]
    IN  Norm[a[1] * (b[2] \div g) + b[1] * (a[2] \div g), a[2] * (b[2] \div g)]

Sub[a \in Rat, b \in Rat] == Add[a, Neg[b]]

Mul[a \in Rat, b \in Rat] ==
    LET g == GCD[Abs[a[1]], b[2]]
        h == GCD[Abs[b[1]], a[2]]
    IN  <<(a[1] \div g) * (b[1] \div h), (a[2] \div h) * (b[2] \div g)>>

Div[a \in Rat, b \in Rat] ==
    IF b[1] < 0 THEN Mul[a, Norm[-b[2], -b[1]]] ELSE Mul[a, Norm[b[2], b[1]]]

(***************************************************************************)
(* Point and Vec2 of the math crate: a pair of f64, used component-wise.   *)
(***************************************************************************)
Pt(x, y) == [x |-> x, y |-> y]

Point(x, y) == Pt(F(x), F(y))

PointZERO == Point(0, 0)

Vec2ONE == Point(1, 1)

PtScale(p, k) == Pt(Mul[p.x, k], Mul[p.y, k])

(***************************************************************************)
(* `as f32`: round to nearest, ties to even, on a 24 bit significand.      *)
(* Exact on a dyadic fraction; the exponent range of f32 is not modelled.  *)
(***************************************************************************)
F32Significand == 16777216

ExcessBits[n \in Nat] ==
    IF n < F32Significand THEN 1 ELSE 2 * ExcessBits[n \div 2]

RoundHalfEven[n \in Nat, k \in Nat] ==
    LET q == n \div k
        r == n % k
    IN  IF 2 * r < k THEN q
        ELSE IF 2 * r > k THEN q + 1
        ELSE IF q % 2 = 0 THEN q ELSE q + 1

AsF32[a \in Rat] ==
    LET k == ExcessBits[Abs[a[1]]]
        m == RoundHalfEven[Abs[a[1]], k]
        s == IF a[1] < 0 THEN -1 ELSE 1
    IN  IF k = 1 THEN a ELSE Norm[s * m * k, a[2]]

(***************************************************************************)
(* f32 arithmetic of the matrix library: every result is an f32.           *)
(***************************************************************************)
FAdd[a \in Rat, b \in Rat] == AsF32[Add[a, b]]

FSub[a \in Rat, b \in Rat] == AsF32[Sub[a, b]]

FMul[a \in Rat, b \in Rat] == AsF32[Mul[a, b]]

FDiv[a \in Rat, b \in Rat] == AsF32[Div[a, b]]

(***************************************************************************)
(* sin_cos of an angle given in quarter turns.                             *)
(***************************************************************************)
Sin[r \in Int] ==
    CASE r % 4 = 0 -> Zero
      [] r % 4 = 1 -> One
      [] r % 4 = 2 -> Zero
      [] r % 4 = 3 -> Neg[One]

Cos[r \in Int] ==
    CASE r % 4 = 0 -> One
      [] r % 4 = 1 -> Zero
      [] r % 4 = 2 -> Neg[One]
      [] r % 4 = 3 -> Zero

(***************************************************************************)
(* Mat4 and Vec3 of the matrix library: m[r][c] is the element of row r,   *)
(* column c.                                                               *)
(***************************************************************************)
Mat4 == [1..4 -> [1..4 -> Rat]]

Vec3s == Rat \X Rat \X Rat

Array16 == [1..16 -> Rat]

FromColsArray[a \in Array16] ==
    << <<a[1], a[5], a[9], a[13]>>,
       <<a[2], a[6], a[10], a[14]>>,
       <<a[3], a[7], a[11], a[15]>>,
       <<a[4], a[8], a[12], a[16]>> >>

Transpose[m \in Mat4] ==
    << <<m[1][1], m[2][1], m[3][1], m[4][1]>>,
       <<m[1][2], m[2][2], m[3][2], m[4][2]>>,
       <<m[1][3], m[2][3], m[3][3], m[4][3]>>,
       <<m[1][4], m[2][4], m[3][4], m[4][4]>> >>

Dot4[a \in Seq(Rat), b \in Seq(Rat)] ==
    FAdd[FAdd[FAdd[FMul[a[1], b[1]], FMul[a[2], b[2]]], FMul[a[3], b[3]]],
         FMul[a[4], b[4]]]

MulMat4[a \in Mat4, b \in Mat4] ==
    LET cols == Transpose[b]
    IN  [r \in 1..4 |-> [c \in 1..4 |-> Dot4[a[r], cols[c]]]]

\* transform_point3: the vector is taken as a point (w = 1), there is no
\* perspective divide, and the first three components are returned.
TransformPoint3[m \in Mat4, v \in Vec3s] ==
    [r \in 1..3 |-> Dot4[m[r], <<v[1], v[2], v[3], One>>]]

\* inverse, on the matrices to_matrix builds (third row and column of the
\* identity, bottom row 0 0 0 1): the adjugate times the reciprocal of the
\* determinant.
Inverse[m \in Mat4] ==
    LET a == m[1][1]
        b == m[1][2]
        c == m[2][1]
        d == m[2][2]
        tx == m[1][4]
        ty == m[2][4]
        det == FSub[FMul[a, d], FMul[b, c]]
        rcp == FDiv[One, det]
    IN  <<
        <<FMul[d, rcp], FMul[Neg[b], rcp], Zero,
          FMul[FSub[FMul[b, ty], FMul[d, tx]], rcp]>>,
        <<FMul[Neg[c], rcp], FMul[a, rcp], Zero,
          FMul[FSub[FMul[c, tx], FMul[a, ty]], rcp]>>,
        <<Zero, Zero, FMul[det, rcp], Zero>>,
        <<Zero, Zero, Zero, FMul[det, rcp]>> >>

Vec3(p) == <<AsF32[p.x], AsF32[p.y], Zero>>

(***************************************************************************)
(* Camera                                                                  *)
(***************************************************************************)
Camera(offset, rotation, scale, position, screen_size) ==
    [offset |-> offset, rotation |-> rotation, scale |-> scale,
     position |-> position, screen_size |-> screen_size]

CameraDefault == Camera(PointZERO, 0, Vec2ONE, PointZERO, Point(1920, 1080))

CameraNew(offset, rotation, scale, position, screen_size) ==
    Camera(offset, rotation, scale, position, screen_size)

\* Camera::to_matrix with the rotation taken clockwise.
Camera_to_matrix_clockwise(c) ==
    LET sinr == Neg[Sin[c.rotation]]
        cosr == Cos[c.rotation]
        m00 == Mul[cosr, c.scale.x]
        m01 == Mul[Neg[sinr], c.scale.y]
        m10 == Mul[sinr, c.scale.x]
        m11 == Mul[cosr, c.scale.y]
        m03 == Add[Sub[Mul[c.position.x, Neg[m00]], Mul[c.position.y, m01]],
                   c.offset.x]
        m13 == Add[Sub[Mul[c.position.y, Neg[m11]], Mul[c.position.x, m10]],
                   c.offset.y]
    IN  Transpose[FromColsArray[<<
            AsF32[m00], AsF32[m01], Zero, AsF32[m03],
            AsF32[m10], AsF32[m11], Zero, AsF32[m13],
            Zero, Zero, One, Zero,
            Zero, Zero, Zero, One >>]]

Camera_to_matrix(c) ==
    LET sinr == Sin[c.rotation]
        cosr == Cos[c.rotation]
        m00 == Mul[cosr, c.scale.x]
        m01 == Mul[Neg[sinr], c.scale.y]
        m10 == Mul[sinr, c.scale.x]
        m11 == Mul[cosr, c.scale.y]
        m03 == Add[Sub[Mul[c.position.x, Neg[m00]], Mul[c.position.y, m01]],
                   c.offset.x]
        m13 == Add[Sub[Mul[c.position.y, Neg[m11]], Mul[c.position.x, m10]],
                   c.offset.y]
    IN  Transpose[FromColsArray[<<
            AsF32[m00], AsF32[m01], Zero, AsF32[m03],
            AsF32[m10], AsF32[m11], Zero, AsF32[m13],
            Zero, Zero, One, Zero,
            Zero, Zero, Zero, One >>]]

world_to_screen_coords(c, point) ==
    LET screen_point == TransformPoint3[Camera_to_matrix(c), Vec3(point)]
    IN  Pt(screen_point[1], screen_point[2])

\* screen_to_world_coords applying the matrix itself, not its inverse.
screen_to_world_coords_without_inverse(c, point) ==
    LET world_point == TransformPoint3[Camera_to_matrix(c), Vec3(point)]
    IN  Pt(world_point[1], world_point[2])

screen_to_world_coords(c, point) ==
    LET inverse_matrix == Inverse[Camera_to_matrix(c)]
        world_point == TransformPoint3[inverse_matrix, Vec3(point)]
    IN  Pt(world_point[1], world_point[2])

set_position(c, point) ==
    [c EXCEPT !.position = Pt(point.x, point.y)]

set_offset(c, point) ==
    [c EXCEPT !.offset = Pt(Mul[point.x, c.scale.x], Mul[point.y, c.scale.y])]

\* move_by_world_coords adding the delta.
move_by_world_coords_added(c, delta) ==
    [c EXCEPT !.position = Pt(Add[c.position.x, delta.x],
                              Add[c.position.y, delta.y])]

move_by_world_coords(c, delta) ==
    [c EXCEPT !.position = Pt(Sub[c.position.x, delta.x],
                              Sub[c.position.y, delta.y])]

\* move_by_screen_coords multiplying the delta by the scale.
move_by_screen_coords_times_scale(c, delta) ==
    [c EXCEPT !.position = Pt(Sub[c.position.x, Mul[delta.x, c.scale.x]],
                              Sub[c.position.y, Mul[delta.y, c.scale.y]])]

move_by_screen_coords(c, delta) ==
    [c EXCEPT !.position = Pt(Sub[c.position.x, Div[delta.x, c.scale.x]],
                              Sub[c.position.y, Div[delta.y, c.scale.y]])]

get_zoom(c) == c.scale

\* set_zoom keeping the unscaled pivot: the stored offset follows the scale.
set_zoom_rescaling_offset(c, scale) ==
    [c EXCEPT !.scale = scale,
              !.offset = Pt(Mul[Div[c.offset.x, c.scale.x], scale.x],
                            Mul[Div[c.offset.y, c.scale.y], scale.y])]

set_zoom(c, scale) == [c EXCEPT !.scale = scale]

\* zoom adding the factor to the scale.
zoom_added(c, factor) ==
    [c EXCEPT !.scale = Pt(Add[c.scale.x, factor.x], Add[c.scale.y, factor.y])]

zoom(c, factor) ==
    [c EXCEPT !.scale = Pt(Mul[c.scale.x, factor.x], Mul[c.scale.y, factor.y])]

\* zoom_center taking the centre of the stored screen_size.
zoom_center_stored_size(c, drawable_size, factor) ==
    LET screen_center == PtScale(c.screen_size, Half)
        world_center == screen_to_world_coords(c, screen_center)
    IN  [c EXCEPT
            !.position = Pt(
                Sub[world_center.x,
                    Div[Sub[world_center.x, c.position.x], factor.x]],
                Sub[world_center.y,
                    Div[Sub[world_center.y, c.position.y], factor.y]]),
            !.scale = Pt(Mul[c.scale.x, factor.x], Mul[c.scale.y, factor.y])]

\* drawable_size is what ctx.gfx.drawable_size() returns.
zoom_center(c, drawable_size, factor) ==
    LET screen_center == PtScale(drawable_size, Half)
        world_center == screen_to_world_coords(c, screen_center)
    IN  [c EXCEPT
            !.position = Pt(
                Sub[world_center.x,
                    Div[Sub[world_center.x, c.position.x], factor.x]],
                Sub[world_center.y,
                    Div[Sub[world_center.y, c.position.y], factor.y]]),
            !.scale = Pt(Mul[c.scale.x, factor.x], Mul[c.scale.y, factor.y])]

\* zoom_at_screen_coords changing the scale before it solves the position.
zoom_at_screen_coords_scale_first(c, point, factor) ==
    LET scaled == [c EXCEPT !.scale = Pt(Mul[c.scale.x, factor.x],
                                         Mul[c.scale.y, factor.y])]
        world_center == screen_to_world_coords(scaled, point)
    IN  [scaled EXCEPT
            !.position = Pt(
                Sub[world_center.x,
                    Div[Sub[world_center.x, c.position.x], factor.x]],
                Sub[world_center.y,
                    Div[Sub[world_center.y, c.position.y], factor.y]])]

zoom_at_screen_coords(c, point, factor) ==
    LET world_center == screen_to_world_coords(c, point)
    IN  [c EXCEPT
            !.position = Pt(
                Sub[world_center.x,
                    Div[Sub[world_center.x, c.position.x], factor.x]],
                Sub[world_center.y,
                    Div[Sub[world_center.y, c.position.y], factor.y]]),
            !.scale = Pt(Mul[c.scale.x, factor.x], Mul[c.scale.y, factor.y])]

rotate(c, angle) == [c EXCEPT !.rotation = c.rotation + angle]

set_rotation(c, angle) == [c EXCEPT !.rotation = angle]

(***************************************************************************)
(* Transform                                                               *)
(***************************************************************************)
Transform(dest, rotation, scale, offset) ==
    [dest |-> dest, rotation |-> rotation, scale |-> scale, offset |-> offset]

TransformDefault == Transform(PointZERO, 0, Vec2ONE, PointZERO)

\* Transform::to_matrix using the offset as stored, not divided by the scale.
Transform_to_matrix_stored_offset(t) ==
    LET offset == t.offset
        sinr == Sin[t.rotation]
        cosr == Cos[t.rotation]
        m00 == Mul[cosr, t.scale.x]
        m01 == Mul[Neg[sinr], t.scale.y]
        m10 == Mul[sinr, t.scale.x]
        m11 == Mul[cosr, t.scale.y]
        m03 == Add[Sub[Mul[offset.x, Neg[m00]], Mul[offset.y, m01]], t.dest.x]
        m13 == Add[Sub[Mul[offset.y, Neg[m11]], Mul[offset.x, m10]], t.dest.y]
    IN  Transpose[FromColsArray[<<
            AsF32[m00], AsF32[m01], Zero, AsF32[m03],
            AsF32[m10], AsF32[m11], Zero, AsF32[m13],
            Zero, Zero, One, Zero,
            Zero, Zero, Zero, One >>]]

Transform_to_matrix(t) ==
    LET offset == Pt(Div[t.offset.x, t.scale.x], Div[t.offset.y, t.scale.y])
        sinr == Sin[t.rotation]
        cosr == Cos[t.rotation]
        m00 == Mul[cosr, t.scale.x]
        m01 == Mul[Neg[sinr], t.scale.y]
        m10 == Mul[sinr, t.scale.x]
        m11 == Mul[cosr, t.scale.y]
        m03 == Add[Sub[Mul[offset.x, Neg[m00]], Mul[offset.y, m01]], t.dest.x]
        m13 == Add[Sub[Mul[offset.y, Neg[m11]], Mul[offset.x, m10]], t.dest.y]
    IN  Transpose[FromColsArray[<<
            AsF32[m00], AsF32[m01], Zero, AsF32[m03],
            AsF32[m10], AsF32[m11], Zero, AsF32[m13],
            Zero, Zero, One, Zero,
            Zero, Zero, Zero, One >>]]

\* Transform::apply_matrix multiplying in the other order.
Transform_apply_matrix_child_last(t, parent_matrix) ==
    MulMat4[Transform_to_matrix(t), parent_matrix]

Transform_apply_matrix(t, parent_matrix) ==
    MulMat4[parent_matrix, Transform_to_matrix(t)]

Camera_apply_matrix(c, object) ==
    MulMat4[Camera_to_matrix(c), Transform_to_matrix(object)]

(***************************************************************************)
(* Inputs.  Scales and factors have no zero component: a zero scale makes  *)
(* the code divide by zero and is outside every statement made below.     *)
(***************************************************************************)
InitOffsets == {Point(0, 0), Point(960, 540)}

InitRotations == {0, 1}

InitScales == {Point(1, 1), Point(2, 1), Point(2, 2)}

InitPositions == {Point(0, 0)}

InitScreenSizes == {Point(1920, 1080)}

Positions == {Point(-4, 6)}

Offsets == {Point(10, 10)}

Deltas == {Point(1, 0), Point(-4, 6)}

WorldPoints == {Point(100, 0), Point(-3, 5)}

ScreenPoints == {Point(7, -2)}

Factors == {Point(2, 2), Pt(Neg[Half], F(4))}

ZoomValues == {Point(4, 4)}

DrawableSizes == {Point(1920, 1080), Point(6, 2)}

RotateAngles == {1}

RotationValues == {3}

Dests == {Point(0, 0), Point(5, -3)}

Pivots == {Point(0, 0), Point(4, 2)}

Transforms ==
    {TransformDefault} \cup
    {Transform(d, r, s, o) :
        d \in Dests, r \in {1, 3}, s \in InitScales \cup {Pt(Half, F(4))},
        o \in Pivots}

NoRet == <<>>

NoQuery == [op |-> "none"]

(***************************************************************************)
(* State.  cam is the Camera.  hist records the mutating calls made on it, *)
(* each with its arguments and the Camera it was made on.  query is the    *)
(* matrix function last applied and ret the matrix it returned.            *)
(***************************************************************************)
Init ==
    /\ \/ cam = CameraDefault
       \/ \E o \in InitOffsets, r \in InitRotations, s \in InitScales,
             p \in InitPositions, z \in InitScreenSizes :
             cam = CameraNew(o, r, s, p, z)
    /\ hist = <<>>
    /\ query = NoQuery
    /\ ret = NoRet

Mutated(c, k) ==
    /\ Len(hist) < MaxSteps
    /\ cam' = c
    /\ hist' = Append(hist, [call |-> k, before |-> cam])
    /\ UNCHANGED <<query, ret>>

SetPosition ==
    \E point \in Positions :
        Mutated(set_position(cam, point),
                [op |-> "set_position", point |-> point])

SetOffset ==
    \E point \in Offsets :
        Mutated(set_offset(cam, point), [op |-> "set_offset", point |-> point])

MoveByWorldCoords ==
    \E delta \in Deltas :
        Mutated(move_by_world_coords(cam, delta),
                [op |-> "move_by_world_coords", delta |-> delta])

MoveByScreenCoords ==
    \E delta \in Deltas :
        Mutated(move_by_screen_coords(cam, delta),
                [op |-> "move_by_screen_coords", delta |-> delta])

SetZoom ==
    \E scale \in ZoomValues :
        Mutated(set_zoom(cam, scale), [op |-> "set_zoom", scale |-> scale])

Zoom ==
    \E factor \in Factors :
        Mutated(zoom(cam, factor), [op |-> "zoom", factor |-> factor])

ZoomCenter ==
    \E drawable_size \in DrawableSizes, factor \in Factors :
        Mutated(zoom_center(cam, drawable_size, factor),
                [op |-> "zoom_center", drawable_size |-> drawable_size,
                 factor |-> factor])

ZoomAtScreenCoords ==
    \E point \in ScreenPoints, factor \in Factors :
        Mutated(zoom_at_screen_coords(cam, point, factor),
                [op |-> "zoom_at_screen_coords", point |-> point,
                 factor |-> factor])

Rotate ==
    \E angle \in RotateAngles :
        Mutated(rotate(cam, angle), [op |-> "rotate", angle |-> angle])

SetRotation ==
    \E angle \in RotationValues :
        Mutated(set_rotation(cam, angle),
                [op |-> "set_rotation", angle |-> angle])

Next ==
    \/ SetPosition
    \/ SetOffset
    \/ MoveByWorldCoords
    \/ MoveByScreenCoords
    \/ SetZoom
    \/ Zoom
    \/ ZoomCenter
    \/ ZoomAtScreenCoords
    \/ Rotate
    \/ SetRotation

Spec == Init /\ [][Next]_vars

(***************************************************************************)
(* The matrix functions, applied to the Camera as constructed and to the   *)
(* Transforms of a draw call.  They read the state and leave it alone, so  *)
(* one application on each constructed state reaches every result.         *)
(***************************************************************************)
ParentMatrices(c) ==
    {Camera_to_matrix(c),
     Transform_to_matrix(Transform(Point(1, 2), 1, Point(2, 4), Point(2, 0)))}

Queried(k, r) ==
    /\ query = NoQuery
    /\ query' = k
    /\ ret' = r
    /\ UNCHANGED <<cam, hist>>

CameraApplyMatrix ==
    \E object \in Transforms :
        Queried([op |-> "Camera::apply_matrix", object |-> object],
                Camera_apply_matrix(cam, object))

TransformToMatrix ==
    \E t \in Transforms :
        Queried([op |-> "Transform::to_matrix", transform |-> t],
                Transform_to_matrix(t))

TransformApplyMatrix ==
    \E t \in Transforms, parent_matrix \in ParentMatrices(cam) :
        Queried([op |-> "Transform::apply_matrix", transform |-> t,
                 parent_matrix |-> parent_matrix],
                Transform_apply_matrix(t, parent_matrix))

NextMatrix ==
    \/ CameraApplyMatrix
    \/ TransformToMatrix
    \/ TransformApplyMatrix

SpecMatrix == Init /\ [][NextMatrix]_vars

(***************************************************************************)
(* The last mutating call, its arguments, and the Camera it was made on.   *)
(***************************************************************************)
Called(op) == Len(hist) > 0 /\ hist[Len(hist)].call.op = op

call == hist[Len(hist)].call

prev == hist[Len(hist)].before

(***************************************************************************)
(* Plane geometry in which the statements below are written: the           *)
(* counter-clockwise rotation R(r) = [[cos, -sin], [sin, cos]], the        *)
(* component-wise product and quotient, sum and difference.                *)
(***************************************************************************)
PtAdd(a, b) == Pt(Add[a.x, b.x], Add[a.y, b.y])

PtSub(a, b) == Pt(Sub[a.x, b.x], Sub[a.y, b.y])

PtMul(a, b) == Pt(Mul[a.x, b.x], Mul[a.y, b.y])

PtDiv(a, b) == Pt(Div[a.x, b.x], Div[a.y, b.y])

Rot(r, v) ==
    Pt(Sub[Mul[Cos[r], v.x], Mul[Sin[r], v.y]],
       Add[Mul[Sin[r], v.x], Mul[Cos[r], v.y]])

Turned(c) == c.rotation % 4 # 0

NonUniform(v) == v.x # v.y

\* C1.  Pivot invariance under zoom: the world point that is under the
\* screen point p before zoom_at_screen_coords(p, factor) is under p after
\* it, whatever the rotation, position, offset, scale and factor.
C1_PivotInvariance ==
    Called("zoom_at_screen_coords") =>
        world_to_screen_coords(cam, screen_to_world_coords(prev, call.point))
            = call.point

C1_Witness ==
    /\ Called("zoom_at_screen_coords")
    /\ Turned(prev)
    /\ NonUniform(prev.scale)
    /\ NonUniform(call.factor)
    /\ cam.position # prev.position
    /\ screen_to_world_coords(prev, call.point) # call.point

C3_InverseRoundTrip ==
    \A p \in WorldPoints :
        screen_to_world_coords(cam, world_to_screen_coords(cam, p)) = p

C3_Witness ==
    /\ Len(hist) = MaxSteps
    /\ Turned(cam)
    /\ NonUniform(cam.scale)
    /\ cam.offset # PointZERO
    /\ cam.position # PointZERO
    /\ \E p \in WorldPoints :
          /\ world_to_screen_coords(cam, p) # p
          /\ screen_to_world_coords(cam, world_to_screen_coords(cam, p)) = p

\* C4 as amended.  After move_by_screen_coords(delta) the screen position
\* of every world point has changed by R(rotation) . delta, whatever the
\* scale: by exactly delta when the rotation is a whole number of turns.
C4_ScreenPanTurnsWithRotation ==
    Called("move_by_screen_coords") =>
        \A w \in WorldPoints :
            /\ PtSub(world_to_screen_coords(cam, w),
                     world_to_screen_coords(prev, w))
                   = Rot(prev.rotation, call.delta)
            /\ prev.rotation % 4 = 0 =>
                   PtSub(world_to_screen_coords(cam, w),
                         world_to_screen_coords(prev, w)) = call.delta

C4_Witness ==
    /\ Called("move_by_screen_coords")
    /\ prev.rotation % 4 = 0
    /\ NonUniform(prev.scale)
    /\ \A w \in WorldPoints :
          PtSub(world_to_screen_coords(cam, w),
                world_to_screen_coords(prev, w)) = call.delta

\* C4 as stated.  After move_by_screen_coords(delta) the screen position of
\* every world point has changed by exactly delta, whatever the scale and
\* the rotation.
C4_ScreenPanOneToOne ==
    Called("move_by_screen_coords") =>
        \A w \in WorldPoints :
            PtSub(world_to_screen_coords(cam, w),
                  world_to_screen_coords(prev, w)) = call.delta

\* C5.  Pan sign convention: move_by_world_coords(delta) replaces position
\* by position - delta, move_by_screen_coords(delta) by
\* position - delta / scale, and both leave every other field alone; from
\* (0,0), move_by_world_coords((1,0)) gives (-1,0) and, at scale (2,1),
\* move_by_screen_coords((1,0)) gives (-1/2,0).
C5_PanSignConvention ==
    /\ Called("move_by_world_coords") =>
          /\ cam = [prev EXCEPT !.position = PtSub(prev.position, call.delta)]
          /\ (prev.position = Point(0, 0) /\ call.delta = Point(1, 0)) =>
                 cam.position = Point(-1, 0)
    /\ Called("move_by_screen_coords") =>
          /\ cam = [prev EXCEPT !.position =
                        PtSub(prev.position, PtDiv(call.delta, prev.scale))]
          /\ (/\ prev.position = Point(0, 0)
              /\ prev.scale = Point(2, 1)
              /\ call.delta = Point(1, 0)) =>
                 cam.position = Pt(<<-1, 2>>, Zero)

C5_Witness ==
    /\ Called("move_by_screen_coords")
    /\ prev.position = Point(0, 0)
    /\ prev.scale = Point(2, 1)
    /\ call.delta = Point(1, 0)
    /\ cam.position = Pt(<<-1, 2>>, Zero)

\* C6.  Offset scaling asymmetry: set_offset(p) stores p * scale with the
\* scale of the time of the call, and no other call changes the stored
\* offset; set_offset((10,10)) at scale (2,2) stores (20,20), and a later
\* change of the scale to (4,4) leaves (20,20).
C6_OffsetStoredScaled ==
    /\ Called("set_offset") =>
          /\ cam.offset = PtMul(call.point, prev.scale)
          /\ (call.point = Point(10, 10) /\ prev.scale = Point(2, 2)) =>
                 cam.offset = Point(20, 20)
    /\ (Len(hist) > 0 /\ ~Called("set_offset")) => cam.offset = prev.offset
    /\ \A i \in 1..Len(hist) :
          \A j \in (i + 1)..Len(hist) :
              (/\ hist[i].call.op = "set_offset"
               /\ \A k \in (i + 1)..j : hist[k].call.op # "set_offset") =>
                  LET after == IF j = Len(hist) THEN cam ELSE hist[j + 1].before
                  IN  after.offset = PtMul(hist[i].call.point,
                                           hist[i].before.scale)

C6_Witness ==
    /\ Len(hist) = 2
    /\ hist[1].call = [op |-> "set_offset", point |-> Point(10, 10)]
    /\ hist[1].before.scale = Point(2, 2)
    /\ hist[2].call = [op |-> "set_zoom", scale |-> Point(4, 4)]
    /\ cam.scale = Point(4, 4)
    /\ cam.offset = Point(20, 20)

\* C7.  Zoom composition: zoom(f) followed by zoom(g) yields the scale of
\* the single call zoom(f * g) and the scale of zoom(g) followed by
\* zoom(f); zoom changes no field other than scale.
C7_ZoomComposition ==
    /\ Called("zoom") =>
          /\ [cam EXCEPT !.scale = prev.scale] = prev
          /\ cam.scale = PtMul(prev.scale, call.factor)
    /\ (Len(hist) >= 2 /\ Called("zoom")
            /\ hist[Len(hist) - 1].call.op = "zoom") =>
          LET first == hist[Len(hist) - 1].before
              f == hist[Len(hist) - 1].call.factor
              g == call.factor
          IN  /\ cam.scale = zoom(first, PtMul(f, g)).scale
              /\ cam.scale = zoom(zoom(first, g), f).scale
    /\ \A f \in Factors, g \in Factors :
          /\ zoom(zoom(cam, f), g).scale = zoom(cam, PtMul(f, g)).scale
          /\ zoom(zoom(cam, f), g).scale = zoom(zoom(cam, g), f).scale

C7_Witness ==
    /\ Len(hist) >= 2
    /\ Called("zoom")
    /\ hist[Len(hist) - 1].call.op = "zoom"
    /\ hist[Len(hist) - 1].call.factor # call.factor
    /\ NonUniform(hist[Len(hist) - 1].before.scale)
    /\ cam.scale = zoom(hist[Len(hist) - 1].before,
                        PtMul(hist[Len(hist) - 1].call.factor,
                              call.factor)).scale

\* C8.  World-to-screen mapping and rotation direction:
\* world_to_screen_coords(p) = offset + R(rotation) . diag(scale) .
\* (p - position) with R counter-clockwise; so position maps to offset, the
\* default Camera maps every point to itself, and with offset (960,540),
\* scale (1,1), position (0,0) the point (100,0) maps to (1060,540) at
\* rotation 0 and to (960,640) at rotation pi/2.
C8_WorldToScreenMapping ==
    /\ \A p \in WorldPoints \cup {Point(0, 0)} :
          world_to_screen_coords(cam, p)
              = PtAdd(cam.offset,
                      Rot(cam.rotation,
                          PtMul(cam.scale, PtSub(p, cam.position))))
    /\ world_to_screen_coords(cam, cam.position) = cam.offset
    /\ (/\ cam.rotation = 0
        /\ cam.scale = Point(1, 1)
        /\ cam.offset = Point(0, 0)
        /\ cam.position = Point(0, 0)) =>
           \A p \in WorldPoints : world_to_screen_coords(cam, p) = p
    /\ (/\ cam.offset = Point(960, 540)
        /\ cam.scale = Point(1, 1)
        /\ cam.position = Point(0, 0)) =>
           /\ cam.rotation = 0 =>
                 /\ world_to_screen_coords(cam, Point(0, 0)) = Point(960, 540)
                 /\ world_to_screen_coords(cam, Point(100, 0))
                        = Point(1060, 540)
           /\ cam.rotation = 1 =>
                 world_to_screen_coords(cam, Point(100, 0)) = Point(960, 640)

C8_Witness ==
    /\ Called("rotate")
    /\ prev.rotation = 0
    /\ cam.offset = Point(960, 540)
    /\ cam.scale = Point(1, 1)
    /\ cam.position = Point(0, 0)
    /\ cam.rotation = 1
    /\ world_to_screen_coords(cam, Point(100, 0)) = Point(960, 640)

\* C9.  Composition order of apply_matrix: transforming a point by
\* t.apply_matrix(P) is transforming it by t.to_matrix() and then by P;
\* transforming it by c.apply_matrix(o) is transforming it by o.to_matrix()
\* and then by c.to_matrix().
C9_ApplyMatrixChildFirst ==
    /\ query.op = "Transform::apply_matrix" =>
          \A q \in WorldPoints :
              TransformPoint3[ret, Vec3(q)]
                  = TransformPoint3[
                        query.parent_matrix,
                        TransformPoint3[Transform_to_matrix(query.transform),
                                        Vec3(q)]]
    /\ query.op = "Camera::apply_matrix" =>
          \A q \in WorldPoints :
              TransformPoint3[ret, Vec3(q)]
                  = TransformPoint3[
                        Camera_to_matrix(cam),
                        TransformPoint3[Transform_to_matrix(query.object),
                                        Vec3(q)]]

C9_Witness ==
    /\ query.op = "Transform::apply_matrix"
    /\ NonUniform(query.transform.scale)
    /\ query.transform.offset # PointZERO
    /\ \E q \in WorldPoints :
          TransformPoint3[ret, Vec3(q)]
              # TransformPoint3[
                    Transform_to_matrix(query.transform),
                    TransformPoint3[query.parent_matrix, Vec3(q)]]

\* C10.  Transform pivot maps to dest: the translation of
\* Transform::to_matrix is dest - M . local_offset, with
\* M = R(rotation) . diag(scale) and local_offset = offset / scale; the
\* matrix sends local_offset to dest; its third row and column are those of
\* the identity and its bottom row is 0 0 0 1.
C10_TransformPivotMapsToDest ==
    query.op = "Transform::to_matrix" =>
        LET t == query.transform
            local_offset == PtDiv(t.offset, t.scale)
        IN  /\ Pt(ret[1][4], ret[2][4])
                   = PtSub(t.dest,
                           Rot(t.rotation, PtMul(t.scale, local_offset)))
            /\ TransformPoint3[ret, <<local_offset.x, local_offset.y, Zero>>]
                   = <<t.dest.x, t.dest.y, Zero>>
            /\ ret[3] = <<Zero, Zero, One, Zero>>
            /\ ret[4] = <<Zero, Zero, Zero, One>>
            /\ \A r \in 1..4 : ret[r][3] = (IF r = 3 THEN One ELSE Zero)

C10_Witness ==
    /\ query.op = "Transform::to_matrix"
    /\ query.transform.rotation % 4 # 0
    /\ NonUniform(query.transform.scale)
    /\ query.transform.offset # PointZERO
    /\ query.transform.dest # PointZERO
    /\ PtDiv(query.transform.offset, query.transform.scale)
           # query.transform.offset

====
